---- MODULE Spec2Model ----
(***************************************************************************)
(* Model of src/app.py: the locality scraper.                              *)
(*                                                                         *)
(*   scrape_multiple_localities_sequential  the loop over the job URLs     *)
(*   scrape_locality                        one job: attempts, page load,  *)
(*                                          scroll loop, flushes           *)
(*   save_and_merge_data/update_master_file the sink (read-modify-write)   *)
(*   load_progress / save_progress          the checkpoint file            *)
(*                                                                         *)
(* The browser (selenium), the clock and the file system are the           *)
(* environment: every call into them returns one of the outcomes the       *)
(* library can produce, chosen nondeterministically.                       *)
(***************************************************************************)
EXTENDS Integers, Sequences, FiniteSets, Bags, TLC

(***************************************************************************)
(* Bounds of the model.  BATCH_SIZE, MAX_RETRIES, MAX_ERRORS and the city  *)
(* thresholds are CONFIG entries of the program (50, 5, 5, 3000/500); they *)
(* are scaled down here so that the page content needed to reach them      *)
(* stays small.  MaxSteps is the number up to which the passes of a scroll *)
(* loop are counted.                                                       *)
(***************************************************************************)
NumNames == 3
MaxTime == 2
MaxHeight == 2
BATCH_SIZE == 2
MAX_RETRIES == 2
MAX_ERRORS == 2
THRESHOLD_MUMBAI == 3
THRESHOLD_DEFAULT == 2
MaxSteps == 8
NumCallers == 2

\* Literals of the scroll loop, kept at their values in the program.
SAME_HEIGHT_LIMIT == 3
NO_NEW_DATA_LIMIT == 5
REFRESH_AT == 3

Names == 1..NumNames
Heights == 1..MaxHeight

\* element.text of a card: a name (n), the same name with white space around
\* it (-n), or white space only (0).
\* str.strip(): 0 stands for the empty string.
Strip(raw) == IF raw < 0 THEN 0 - raw ELSE raw

Min(a, b) == IF a < b THEN a ELSE b

Range(s) == {s[i] : i \in 1..Len(s)}

\* The cards of a page that lists the names 1..n, in page order: the first
\* name, the same name once more with white space around it, a blank card,
\* then the other names.
PageOf(n) == <<1, 0 - 1, 0>> \o [i \in 1..(n - 1) |-> i + 1]

(***************************************************************************)
(* The job list and the values derived from a URL.                         *)
(***************************************************************************)
GURGAON_URL == "https://www.magicbricks.com/localities-in-gurgaon/"
MUMBAI_URL == "https://www.magicbricks.com/localities-in-mumbai/"

\* The lists the run is started with: two jobs, and one list that names the
\* same URL twice.
UrlLists == {<<GURGAON_URL, MUMBAI_URL>>, <<GURGAON_URL, GURGAON_URL>>}

Urls == {GURGAON_URL, MUMBAI_URL}

\* url.split("localities-in-")[-1].replace("/", "").capitalize()
CityName(url) ==
    CASE url = GURGAON_URL -> "Gurgaon"
      [] url = MUMBAI_URL -> "Mumbai"

Cities == {CityName(u) : u \in Urls}

\* city_name.lower() looked up in CITY_THRESHOLDS, 'default' when absent.
get_min_localities_threshold(city_name) ==
    IF city_name = "Mumbai" THEN THRESHOLD_MUMBAI ELSE THRESHOLD_DEFAULT

(***************************************************************************)
(* The sink.  A data frame is a bag of rows [name, city, time].            *)
(***************************************************************************)
Row(name, city, time) == [name |-> name, city |-> city, time |-> time]

\* [[locality, city_name, current_time] for locality in data]
NewData(data, city_name, current_time) ==
    LET Copies(r) == Cardinality({i \in 1..Len(data) : data[i] = r.name})
        rows == {Row(data[i], city_name, current_time) : i \in 1..Len(data)}
    IN  [r \in rows |-> Copies(r)]

NameKey(r) == <<r.name>>
NameCityKey(r) == <<r.name, r.city>>

\* The key of a row under the subset of columns a merge drops duplicates by.
KeyOf(r, subset) == IF subset = "name" THEN NameKey(r) ELSE NameCityKey(r)

\* sort_values('Extraction Time').drop_duplicates(subset, keep='last'): of the
\* rows of one key the last one after the sort stays, a row of the greatest
\* time.  Rows of one key and one time differ in nothing the files hold.
\* keep='first': a row of the least time stays.
LastOfKey_First(df, subset, k) ==
    LET rows == {r \in BagToSet(df) : KeyOf(r, subset) = k}
    IN  CHOOSE r \in rows : \A q \in rows : r.time <= q.time

LastOfKey(df, subset, k) ==
    LET rows == {r \in BagToSet(df) : KeyOf(r, subset) = k}
    IN  CHOOSE r \in rows : \A q \in rows : q.time <= r.time

drop_duplicates_keep_last(df, subset) ==
    SetToBag({LastOfKey(df, subset, KeyOf(r, subset)) : r \in BagToSet(df)})

\* The data frame written back by one merge into a file keyed by subset.
Combined(file, new_data, subset) ==
    IF file.exists
    THEN drop_duplicates_keep_last(file.rows (+) new_data, subset)
    ELSE new_data

NoFile == [exists |-> FALSE, rows |-> EmptyBag]
FileOf(df) == [exists |-> TRUE, rows |-> df]

\* The merge without drop_duplicates: the new rows are appended.
MergedFileAfter_Append(file, data, city_name, current_time) ==
    FileOf(file.rows (+) NewData(data, city_name, current_time))

\* save_and_merge_data up to its call of update_master_file.
MergedFileAfter(file, data, city_name, current_time) ==
    FileOf(Combined(file, NewData(data, city_name, current_time), "name"))

\* update_master_file.
\* The file is replaced by the new rows: what was read is not written back.
MasterFileAfter_Replace(file, data, city_name, current_time) ==
    FileOf(NewData(data, city_name, current_time))

MasterFileAfter(file, data, city_name, current_time) ==
    FileOf(Combined(file, NewData(data, city_name, current_time), "name_city"))

(***************************************************************************)
(* The checkpoint file.                                                    *)
(***************************************************************************)
NoPartial == [url |-> "", seen_titles |-> {}]
EmptyProgress == [completed_urls |-> {}, partial_data |-> NoPartial]

\* The progress dict save_progress builds.
ProgressOf(completed, current_url, seen) ==
    [completed_urls |-> completed,
     partial_data |-> IF current_url # "" /\ seen # {}
                      THEN [url |-> current_url, seen_titles |-> seen]
                      ELSE NoPartial]

MissingProgressFile == [state |-> "missing", content |-> EmptyProgress]
CorruptProgressFile == [state |-> "corrupt", content |-> EmptyProgress]
UnreadableProgressFile == [state |-> "unreadable", content |-> EmptyProgress]
ProgressFile(progress) == [state |-> "ok", content |-> progress]

\* load_progress that returns its default whatever the file holds.
load_progress_Default(file) == EmptyProgress

\* load_progress: the file's content, or the empty checkpoint when the file is
\* missing, open raises or json.load raises.
load_progress(file) ==
    IF file.state = "ok" THEN file.content ELSE EmptyProgress

(***************************************************************************)
(* State.                                                                  *)
(***************************************************************************)
VARIABLES
    \* the environment
    urls,                     \* the list handed to scrape_multiple_localities_sequential
    progress_file,            \* CONFIG['PROGRESS_FILE']
    merged_file,              \* per city: <folder>/<city>_localities.xlsx
    master_file,              \* CONFIG['MASTER_FILE']
    clock,                    \* the last value datetime.now() returned
    site,                     \* per city: the cards of its page, in page order
    open_sessions,            \* browser sessions started and not quit
    \* scrape_multiple_localities_sequential
    mpc, index, completed_urls, partial_data, results, failed_urls, count,
    \* scrape_locality
    pc, driver, location, retry_count, error_count, seen_titles, batch_data,
    consecutive_same_height, no_new_data_count, last_height,
    exc, pending,
    \* callers of update_master_file that run side by side (none in the program)
    callers,
    \* history of the run, read by the properties only
    hist

env_vars == <<urls, site, progress_file, merged_file, master_file, clock, open_sessions,
              callers>>
multi_vars == <<mpc, index, completed_urls, partial_data, results, failed_urls, count>>
job_vars == <<pc, driver, location, retry_count, error_count, seen_titles, batch_data,
              consecutive_same_height, no_new_data_count, last_height,
              exc, pending>>
vars == <<env_vars, multi_vars, job_vars, hist>>

\* The URL of the job the loop is at, and what scrape_locality derives from it.
url == urls[index]
city_name == CityName(url)
min_expected == get_min_localities_threshold(city_name)

(***************************************************************************)
(* History.  None of it is read by an action's guard or by the program     *)
(* state an action writes.                                                 *)
(*   loaded_from        the checkpoint file as load_progress found it      *)
(*   loaded_completed   completed_urls of the checkpoint load_progress read *)
(*   skipped            list positions skipped as already completed        *)
(*   sessions_for       URLs setup_driver was called for                   *)
(*   extracted_for      URLs find_elements was called for                  *)
(*   flushed_for        URLs save_and_merge_data was called for            *)
(*   attempts           attempts started by the current scrape_locality    *)
(*   appended           per name: appends to batch_data in the current call*)
(*   resumed            the names restored from resume_data                *)
(*   navigated          the current attempt's session loaded the job URL   *)
(*   fault_at           where the current attempt's exception was raised   *)
(*   wrote_completed    URLs written to completed_urls of the checkpoint   *)
(*   latest_merged      per city and name: greatest time merged            *)
(*   latest_master      per (name, city): greatest time merged             *)
(*   remerged           (name, city) merged into the master file while it  *)
(*                      held a row of that key                             *)
(*   returned, raised   list positions whose call returned, raised         *)
(*   unchanged_run      passes of the current attempt's scroll loop, up to  *)
(*                      3, that found the height of the pass before them    *)
(*   stalled_steps      passes of the current attempt's scroll loop, when   *)
(*                      each of them found the height unchanged and no new  *)
(*                      name; -1 when one of them did not                   *)
(*   flushed            the last call of save_and_merge_data in the current *)
(*                      scrape_locality: its data, the files it wrote       *)
(*                      (none, merged, both) and a bit that every call flips*)
(***************************************************************************)
NoFlush == [data |-> <<>>, into |-> "none", tick |-> 0]

LatestOf(rows) ==
    [k \in {NameCityKey(r) : r \in BagToSet(rows)} |->
        LET ts == {r.time : r \in {q \in BagToSet(rows) : NameCityKey(q) = k}}
        IN  CHOOSE t \in ts : \A o \in ts : o <= t]

MaxTimes(old, data, city, t) ==
    LET ks == DOMAIN old \cup {<<n, city>> : n \in Range(data)}
    IN  [k \in ks |->
            IF k \in DOMAIN old
            THEN (IF k[2] = city /\ k[1] \in Range(data) /\ t > old[k] THEN t ELSE old[k])
            ELSE t]

(***************************************************************************)
(* Initial states: what an earlier run of the program can have left.       *)
(***************************************************************************)
\* The names an earlier run flushed for Gurgaon, at time 0.
PriorNames == 1..BATCH_SIZE
PriorRows == SetToBag({Row(n, "Gurgaon", 0) : n \in PriorNames})

\* fresh:     nothing on disk
\* rerun:     reset_progress removed the checkpoint, the stores are kept
\* resume:    the earlier run stopped after a flush of the first job
\* completed: the earlier run completed the first job
\* truncated: the earlier run stopped inside a write of the checkpoint
\* unreadable: the checkpoint of the earlier run cannot be opened
PriorRuns == {"fresh", "rerun", "resume", "completed", "truncated", "unreadable"}

PriorProgressFile(prior) ==
    CASE prior = "resume" ->
            ProgressFile(ProgressOf({}, GURGAON_URL, PriorNames))
      [] prior = "completed" ->
            ProgressFile(ProgressOf({GURGAON_URL}, "", {}))
      [] prior = "truncated" -> CorruptProgressFile
      [] prior = "unreadable" -> UnreadableProgressFile
      [] OTHER -> MissingProgressFile

PriorStore(prior) == IF prior = "fresh" THEN NoFile ELSE FileOf(PriorRows)

\* Threads or processes that call update_master_file against the one
\* CONFIG['MASTER_FILE'].  A caller's record holds the locals of its call:
\* data and city_name (the arguments), current_time (line 117), df_existing
\* (the file as os.path.exists and read_excel found it, lines 120-122); and
\* `missed`, read by the properties only: the callers that wrote the file
\* after this one had read it.
Callers == 1..NumCallers

NotCalled ==
    [pc |-> "idle", data |-> <<>>, city_name |-> "", current_time |-> 0,
     df_existing |-> NoFile, missed |-> {}]

InitHist(prior) ==
    [loaded_from |-> MissingProgressFile,
     loaded_completed |-> {},
     skipped |-> {},
     sessions_for |-> {},
     extracted_for |-> {},
     flushed_for |-> {},
     attempts |-> 0,
     appended |-> [n \in Names |-> 0],
     resumed |-> {},
     navigated |-> FALSE,
     fault_at |-> "",
     wrote_completed |-> {},
     latest_merged |-> LatestOf(PriorStore(prior).rows),
     latest_master |-> LatestOf(PriorStore(prior).rows),
     remerged |-> {},
     returned |-> {},
     raised |-> {},
     flushed |-> NoFlush,
     unchanged_run |-> 0,
     stalled_steps |-> 0]

Start(lists, priors, names) ==
    \E list \in lists, prior \in priors :
        /\ urls = list
        /\ site = [c \in Cities |-> PageOf(names)]
        /\ progress_file = PriorProgressFile(prior)
        /\ merged_file = [c \in Cities |-> IF c = "Gurgaon" THEN PriorStore(prior) ELSE NoFile]
        /\ master_file = PriorStore(prior)
        /\ clock = 1
        /\ open_sessions = 0
        /\ callers = [c \in Callers |-> NotCalled]
        /\ mpc = "start"
        /\ index = 1
        /\ completed_urls = {}
        /\ partial_data = NoPartial
        /\ results = [u \in {} |-> 0]
        /\ failed_urls = <<>>
        /\ count = 0
        /\ pc = "idle"
        /\ driver = "None"
        /\ location = "blank"
        /\ retry_count = 0
        /\ error_count = 0
        /\ seen_titles = {}
        /\ batch_data = <<>>
        /\ consecutive_same_height = 0
        /\ no_new_data_count = 0
        /\ last_height = 1
        /\ exc = ""
        /\ pending = ""
        /\ hist = InitHist(prior)

(***************************************************************************)
(* Environment outcomes.                                                   *)
(***************************************************************************)
\* datetime.now().strftime('%Y-%m-%d %H:%M:%S'): the clock, read to the second.
\* The model lets a second pass where the program sleeps for seconds: in the
\* recovery wait (60 s) and between two jobs (5 s); up to MaxTime.
Now == clock

Sleep == Min(clock + 1, MaxTime)

\* save_progress: the file it leaves.  "written": the new checkpoint;
\* "unchanged": open() raised; "truncated": json.dump raised after
\* open(.., 'w') had emptied the file.  It returns normally in all three.
SaveOutcomes == {"written", "unchanged", "truncated"}

save_progress(outcome, completed, current_url, seen) ==
    CASE outcome = "written" -> ProgressFile(ProgressOf(completed, current_url, seen))
      [] outcome = "unchanged" -> progress_file
      [] outcome = "truncated" -> CorruptProgressFile

\* The handler re-raises what open() or json.dump raised.
SavePropagates_Raised(outcome) == outcome # "written"

\* Lines 81-82: except Exception: logging.error, and nothing else; whatever the
\* try block raised, save_progress returns None to its caller.
SavePropagates(outcome) == FALSE

(***************************************************************************)
(* scrape_locality.                                                        *)
(***************************************************************************)
\* except Exception (lines 433-441), entered by an exception e raised at pc:
\* the error is counted, then either the recovery wait or the re-raise.
RetryAllowed_OneMore(errors) == errors <= MAX_ERRORS

\* Line 436.
RetryAllowed(errors) == errors < MAX_ERRORS

\* The exception is handled without being counted.
ErrorsAfter_NotCounted(errors) == errors

\* Line 434.
ErrorsAfter(errors) == errors + 1

Raise(e) ==
    /\ exc' = e
    /\ error_count' = ErrorsAfter(error_count)
    /\ pc' = IF RetryAllowed(ErrorsAfter(error_count)) THEN "recovery_wait" ELSE "finally"
    /\ pending' = IF RetryAllowed(ErrorsAfter(error_count)) THEN "retry" ELSE "raise"

\* while no_new_data_count < 5
LoopTest(no_new) == IF no_new < NO_NEW_DATA_LIMIT THEN "scrolling" ELSE "exhausted"

\* Line 345, setup_driver(): a new session, which shows a blank page, or an
\* exception (no chromedriver, Chrome does not start) that leaves driver as it
\* was.
AttemptStart ==
    /\ mpc = "job" /\ pc = "attempt"
    /\ \/ /\ driver' = "open"
          /\ location' = "blank"
          /\ open_sessions' = open_sessions + 1
          /\ pc' = "load"
          /\ UNCHANGED <<exc, error_count, pending>>
       \/ /\ Raise("Exception")
          /\ UNCHANGED <<driver, location, open_sessions>>
    /\ hist' = [hist EXCEPT !.attempts = @ + 1,
                            !.sessions_for = @ \cup {url},
                            !.navigated = FALSE,
                            !.fault_at = IF pc' = "load" THEN "" ELSE "setup_driver"]
    /\ UNCHANGED <<urls, callers, site, progress_file, merged_file, master_file, clock, multi_vars,
                   retry_count, seen_titles, batch_data, consecutive_same_height,
                   no_new_data_count, last_height>>

\* Lines 353-364, one pass of the load loop: driver.get and the wait for the
\* cards; when both return the session shows the page of the job URL.  retry_count is a local of the call, not of the attempt: once it has
\* reached MAX_RETRIES the loop body is not entered any more.
LoadPage ==
    /\ mpc = "job" /\ pc = "load"
    /\ retry_count < MAX_RETRIES
    /\ \/ /\ pc' = "scroll_init"
          /\ location' = "url"
          /\ hist' = [hist EXCEPT !.navigated = TRUE]
          /\ UNCHANGED <<retry_count, exc, error_count, pending>>
       \/ /\ retry_count' = retry_count + 1
          /\ IF retry_count + 1 = MAX_RETRIES
             THEN /\ Raise("TimeoutException")
                  /\ hist' = [hist EXCEPT !.fault_at = "load"]
             ELSE /\ UNCHANGED <<pc, exc, error_count, pending, hist>>
          /\ UNCHANGED location
       \/ /\ Raise("WebDriverException")
          /\ hist' = [hist EXCEPT !.fault_at = "load"]
          /\ UNCHANGED <<retry_count, location>>
    /\ UNCHANGED <<env_vars, multi_vars, driver, seen_titles, batch_data,
                   consecutive_same_height, no_new_data_count, last_height>>

\* Line 353 with retry_count = MAX_RETRIES: the loop body is not entered and
\* the session stays on the blank page it was started with.
LoadSkipped ==
    /\ mpc = "job" /\ pc = "load"
    /\ ~(retry_count < MAX_RETRIES)
    /\ pc' = "scroll_init"
    /\ UNCHANGED <<env_vars, multi_vars, driver, location, retry_count, error_count, seen_titles,
                   batch_data, consecutive_same_height, no_new_data_count, last_height,
                   exc, pending, hist>>

\* Lines 366-368.
ScrollInit ==
    /\ mpc = "job" /\ pc = "scroll_init"
    /\ \/ /\ no_new_data_count' = 0
          /\ \E h \in Heights : last_height' = h
          /\ pc' = LoopTest(0)
          /\ hist' = [hist EXCEPT !.unchanged_run = 0, !.stalled_steps = 0]
          /\ UNCHANGED <<exc, error_count, pending>>
       \/ /\ no_new_data_count' = 0
          /\ Raise("WebDriverException")
          /\ hist' = [hist EXCEPT !.fault_at = "scroll_init",
                                  !.unchanged_run = 0, !.stalled_steps = 0]
          /\ UNCHANGED last_height
    /\ UNCHANGED <<env_vars, multi_vars, driver, location, retry_count, seen_titles, batch_data,
                   consecutive_same_height>>

\* The cards of the page a session shows: those of the job's page once the
\* session has loaded the job URL, none on the blank page.
Cards(shown, page) == IF shown = "url" THEN page ELSE <<>>

\* The heights a pass can find: a blank page keeps its height.
HeightsOf(shown, height) == IF shown = "url" THEN Heights ELSE {height}

\* The test without the membership in seen_titles.
IsNewTitle_NotEmpty(title_text, seen) == title_text # 0

\* Line 377.
IsNewTitle(title_text, seen) == title_text # 0 /\ title_text \notin seen

\* Lines 375-379 over the cards found, in page order.
RECURSIVE ExtractTitles(_, _, _)
ExtractTitles(titles, seen, batch) ==
    IF titles = <<>> THEN [seen |-> seen, batch |-> batch]
    ELSE LET title_text == Strip(Head(titles))
         IN  IF IsNewTitle(title_text, seen)
             THEN ExtractTitles(Tail(titles), seen \cup {title_text}, Append(batch, title_text))
             ELSE ExtractTitles(Tail(titles), seen, batch)

CountAppends(old, before, after) ==
    [n \in Names |->
        Min(2, old[n] + Cardinality({i \in (Len(before) + 1)..Len(after) : after[i] = n}))]

(***************************************************************************)
(* save_and_merge_data (lines 292-325) with its call of update_master_file *)
(* (lines 112-141).  Both re-raise what pandas raises:                     *)
(*   "merged_raises"  reading or writing the city's file fails; no file    *)
(*                    is changed                                           *)
(*   "master_raises"  the city's file is written, then reading or writing  *)
(*                    the master file fails                                *)
(*   "done"           both files are written                               *)
(* t1 and t2 are the times the two functions read from the clock.          *)
(* data is not changed by either.                                          *)
(***************************************************************************)
SinkOutcomes == {"merged_raises", "master_raises", "done"}

\* The handler without its raise: the error is logged only.
SinkPropagates_Logged(outcome) == FALSE

\* Lines 139-141 and 323-325: except Exception: log, raise.
SinkPropagates(outcome) == outcome # "done"

save_and_merge_data(outcome, data, t1, t2) ==
    /\ merged_file' =
          IF outcome = "merged_raises" THEN merged_file
          ELSE [merged_file EXCEPT ![city_name] = MergedFileAfter(@, data, city_name, t1)]
    /\ master_file' =
          IF outcome = "done" THEN MasterFileAfter(master_file, data, city_name, t2)
          ELSE master_file

SinkHist(h, outcome, data, t1, t2) ==
    [h EXCEPT
        !.flushed_for = @ \cup {url},
        !.latest_merged = IF outcome = "merged_raises" THEN @
                          ELSE MaxTimes(@, data, city_name, t1),
        !.latest_master = IF outcome = "done" THEN MaxTimes(@, data, city_name, t2)
                          ELSE @,
        !.flushed = [data |-> data,
                     into |-> CASE outcome = "done" -> "both"
                                [] outcome = "master_raises" -> "merged"
                                [] OTHER -> "none",
                     tick |-> 1 - @.tick],
        !.remerged = IF outcome = "done"
                     THEN @ \cup {k \in DOMAIN h.latest_master :
                                     k[2] = city_name /\ k[1] \in Range(data)}
                     ELSE @]

\* The counter starts again before it reaches 3.
SameHeightAfter_Wraps(same_height) ==
    IF same_height + 1 >= SAME_HEIGHT_LIMIT THEN 0 ELSE same_height + 1

\* consecutive_same_height is only ever compared with 3: it is kept up to 3.
SameHeightAfter(same_height) == Min(same_height + 1, SAME_HEIGHT_LIMIT)

\* A pass without a new name is counted whatever the height did before.
NoNewDataAfter_AnyStall(no_new, same_height, seen_count, first_count) ==
    IF seen_count = first_count THEN no_new + 1 ELSE no_new

\* Lines 398-400.
NoNewDataAfter(no_new, same_height, seen_count, first_count) ==
    IF same_height >= SAME_HEIGHT_LIMIT /\ seen_count = first_count
    THEN no_new + 1
    ELSE no_new

\* Line 413.
RefreshDue(no_new, seen_count, expected) == no_new = REFRESH_AT

\* An exception raised in the loop body at `at`, with the seen set and the
\* batch as the body has left them.
BodyRaises(e, at, seen, batch, h) ==
    /\ Raise(e)
    /\ seen_titles' = seen
    /\ batch_data' = batch
    /\ hist' = [h EXCEPT !.fault_at = at]
    /\ UNCHANGED <<consecutive_same_height, no_new_data_count, last_height>>

\* Lines 388-419: scroll_page (which swallows its own exceptions and whose
\* result is not used), the page height, the two counters, the refresh when
\* it is due, and the loop test.  The wait after the refresh returns when the
\* cards are there, which they never are on a blank page, and raises
\* otherwise.  first_count is initial_count of line 373.
ScrollAndTest(first_count, seen, batch, h) ==
    \/ \E new_height \in HeightsOf(location, last_height) :
        LET same == IF new_height = last_height
                    THEN SameHeightAfter(consecutive_same_height) ELSE 0
            no_new == IF new_height = last_height
                     THEN NoNewDataAfter(no_new_data_count, same, Cardinality(seen),
                                         first_count)
                     ELSE 0
            passed == [h EXCEPT
                          !.unchanged_run = IF new_height = last_height
                                            THEN Min(@ + 1, SAME_HEIGHT_LIMIT) ELSE 0,
                          !.stalled_steps = IF /\ @ >= 0
                                               /\ new_height = last_height
                                               /\ Cardinality(seen) = first_count
                                            THEN Min(@ + 1, MaxSteps) ELSE 0 - 1]
        IN  /\ consecutive_same_height' = same
            /\ no_new_data_count' = no_new
            /\ last_height' = new_height
            /\ seen_titles' = seen
            /\ batch_data' = batch
            /\ IF RefreshDue(no_new, Cardinality(seen), min_expected)
               THEN \/ /\ location = "url"
                       /\ pc' = LoopTest(no_new)
                       /\ hist' = passed
                       /\ UNCHANGED <<exc, error_count, pending>>
                    \/ /\ \E e \in {"WebDriverException", "TimeoutException"} : Raise(e)
                       /\ hist' = [passed EXCEPT !.fault_at = "refresh"]
               ELSE /\ pc' = LoopTest(no_new)
                    /\ hist' = passed
                    /\ UNCHANGED <<exc, error_count, pending>>
    \/ BodyRaises("WebDriverException", "scroll", seen, batch, h)

\* Lines 370-419, one pass of the scroll loop: find_elements and the loop over
\* the cards, the flush of a full batch with the checkpoint after it, the
\* scroll step.  find_elements returns the cards loaded so far, a prefix of the
\* page (the page loads more as it is scrolled; a new session or a refresh
\* starts it again).  title.text raises for a stale card: the cards before it
\* are done (read = their number), the rest are not, so that only the card
\* after the last one read needs to be there.
ScrollStep ==
    /\ mpc = "job" /\ pc = "scrolling"
    /\ \/ \E loaded \in 0..Len(Cards(location, site[city_name])) : \E read \in 0..loaded :
            /\ loaded - read <= 1
            /\ LET titles == SubSeq(Cards(location, site[city_name]), 1, loaded)
                   got == ExtractTitles(SubSeq(titles, 1, read), seen_titles, batch_data)
                   h == [hist EXCEPT
                            !.extracted_for = @ \cup {url},
                            !.appended = CountAppends(@, batch_data, got.batch)]
               IN  IF read < loaded
                   THEN /\ BodyRaises("StaleElementReferenceException", "extract",
                                      got.seen, got.batch, h)
                        /\ UNCHANGED <<progress_file, merged_file, master_file>>
                   ELSE IF Len(got.batch) >= BATCH_SIZE
                   THEN \E outcome \in SinkOutcomes :
                          /\ save_and_merge_data(outcome, got.batch, Now, Now)
                          /\ IF ~SinkPropagates(outcome)
                             THEN \E saved \in SaveOutcomes :
                                    /\ progress_file' =
                                          save_progress(saved, {}, url, got.seen)
                                    /\ IF ~SavePropagates(saved)
                                       THEN ScrollAndTest(Cardinality(seen_titles),
                                                got.seen, <<>>,
                                                SinkHist(h, outcome, got.batch, Now, Now))
                                       ELSE BodyRaises("SaveError", "save", got.seen, <<>>,
                                                SinkHist(h, outcome, got.batch, Now, Now))
                             ELSE /\ BodyRaises("SinkError", "flush", got.seen, got.batch,
                                           SinkHist(h, outcome, got.batch, Now, Now))
                                  /\ UNCHANGED progress_file
                   ELSE /\ ScrollAndTest(Cardinality(seen_titles), got.seen, got.batch, h)
                        /\ UNCHANGED <<progress_file, merged_file, master_file>>
       \/ /\ BodyRaises("WebDriverException", "extract", seen_titles, batch_data,
                        [hist EXCEPT !.extracted_for = @ \cup {url}])
          /\ UNCHANGED <<progress_file, merged_file, master_file>>
    /\ UNCHANGED <<urls, callers, site, clock, open_sessions, multi_vars, driver, location, retry_count>>

\* Lines 421-423: the flush of what is left.  batch_data is not emptied.
FinalFlush ==
    /\ mpc = "job" /\ pc = "exhausted"
    /\ IF batch_data # <<>>
       THEN \E outcome \in SinkOutcomes :
              /\ save_and_merge_data(outcome, batch_data, Now, Now)
              /\ IF ~SinkPropagates(outcome)
                 THEN /\ pc' = "verify"
                      /\ hist' = SinkHist(hist, outcome, batch_data, Now, Now)
                      /\ UNCHANGED <<exc, error_count, pending>>
                 ELSE /\ Raise("SinkError")
                      /\ hist' = [SinkHist(hist, outcome, batch_data, Now, Now)
                                     EXCEPT !.fault_at = "exhausted"]
       ELSE /\ pc' = "verify"
            /\ UNCHANGED <<merged_file, master_file, exc, error_count, pending, hist>>
    /\ UNCHANGED <<urls, callers, site, clock, progress_file, open_sessions, multi_vars, driver, location, retry_count,
                   seen_titles, batch_data, consecutive_same_height, no_new_data_count,
                   last_height>>

\* The yield test left out.
Insufficient_Never(seen_count, expected) == FALSE

\* Line 426.
Insufficient(seen_count, expected) == seen_count < expected

\* Lines 425-431: the yield test, then the insufficient-localities exception or
\* return len(seen_titles).
Verify ==
    /\ mpc = "job" /\ pc = "verify"
    /\ IF Insufficient(Cardinality(seen_titles), min_expected)
       THEN /\ Raise("Insufficient")
            /\ hist' = [hist EXCEPT !.fault_at = "verify"]
       ELSE /\ pending' = "return"
            /\ pc' = "finally"
            /\ UNCHANGED <<exc, error_count, hist>>
    /\ UNCHANGED <<env_vars, multi_vars, driver, location, retry_count, seen_titles, batch_data,
                   consecutive_same_height, no_new_data_count, last_height>>

\* Lines 437-438: time.sleep(CONFIG['RECOVERY_WAIT']) inside the except block.
RecoveryWait ==
    /\ mpc = "job" /\ pc = "recovery_wait"
    /\ pc' = "finally"
    /\ clock' = Sleep
    /\ UNCHANGED <<urls, callers, site, progress_file, merged_file, master_file, open_sessions,
                   multi_vars, driver, location, retry_count, error_count, seen_titles,
                   batch_data, consecutive_same_height, no_new_data_count, last_height,
                   exc, pending, hist>>

\* Lines 442-444: driver.quit() when driver is set (quit on a session already
\* quit changes nothing), then what the try statement was leaving with: the
\* next pass of while error_count < MAX_ERRORS, the re-raise or the return.
\* When the call ends its locals end with it; the caller gets the count.
QuitsSession_OnErrorOnly(d, leaving) == d = "open" /\ leaving # "return"

\* Line 443.
QuitsSession(d, leaving) == d = "open"

Finally ==
    /\ mpc = "job" /\ pc = "finally"
    /\ open_sessions' = IF QuitsSession(driver, pending) THEN open_sessions - 1
                        ELSE open_sessions
    /\ location' = "blank"
    /\ IF pending = "retry" /\ error_count < MAX_ERRORS
       THEN /\ pc' = "attempt"
            /\ driver' = IF QuitsSession(driver, pending) THEN "quit" ELSE driver
            /\ UNCHANGED <<mpc, count, retry_count, error_count, seen_titles, batch_data,
                           consecutive_same_height, no_new_data_count, last_height,
                           exc, pending, hist>>
       ELSE /\ pc' = "idle"
            /\ mpc' = CASE pending = "return" -> "returned"
                        [] pending = "raise" -> "raised"
                        [] OTHER -> "fell_through"
            /\ count' = IF pending = "return" THEN Cardinality(seen_titles) ELSE 0
            /\ driver' = "None"
            /\ retry_count' = 0
            /\ error_count' = 0
            /\ seen_titles' = {}
            /\ batch_data' = <<>>
            /\ consecutive_same_height' = 0
            /\ no_new_data_count' = 0
            /\ last_height' = 1
            /\ exc' = ""
            /\ pending' = ""
            /\ hist' = [hist EXCEPT !.attempts = 0,
                                    !.appended = [n \in Names |-> 0],
                                    !.resumed = {},
                                    !.navigated = FALSE,
                                    !.fault_at = "",
                                    !.flushed = NoFlush,
                                    !.unchanged_run = 0,
                                    !.stalled_steps = 0]
    /\ UNCHANGED <<urls, callers, site, progress_file, merged_file, master_file, clock, index,
                   completed_urls, partial_data, results, failed_urls>>

(***************************************************************************)
(* scrape_multiple_localities_sequential.                                  *)
(***************************************************************************)
\* Lines 454-457.
LoadProgress ==
    /\ mpc = "start"
    /\ completed_urls' = load_progress(progress_file).completed_urls
    /\ partial_data' = load_progress(progress_file).partial_data
    /\ mpc' = "loop"
    /\ hist' = [hist EXCEPT !.loaded_from = progress_file,
                            !.loaded_completed = load_progress(progress_file).completed_urls]
    /\ UNCHANGED <<env_vars, index, results, failed_urls, count, job_vars>>

AlreadyCompleted_Never(u, completed) == FALSE

\* Line 460.
AlreadyCompleted(u, completed) == u \in completed

\* Lines 460-462.
SkipCompleted ==
    /\ mpc = "loop" /\ index <= Len(urls)
    /\ AlreadyCompleted(url, completed_urls)
    /\ index' = index + 1
    /\ hist' = [hist EXCEPT !.skipped = @ \cup {index}]
    /\ UNCHANGED <<env_vars, mpc, completed_urls, partial_data, results, failed_urls,
                   count, job_vars>>

\* Lines 477-479 and 338: the seen set the call starts with.
ResumeData(u, partial) ==
    IF partial.url = u THEN partial.seen_titles ELSE {}

\* Lines 464-483 and 331-341: the call of scrape_locality and the
\* initialisation of its locals.  The locals assigned only inside the attempt
\* (no_new_data_count, last_height) are given fixed values.
StartJob ==
    /\ mpc = "loop" /\ index <= Len(urls)
    /\ ~AlreadyCompleted(url, completed_urls)
    /\ mpc' = "job"
    /\ pc' = "attempt"
    /\ driver' = "None"
    /\ location' = "blank"
    /\ retry_count' = 0
    /\ error_count' = 0
    /\ seen_titles' = ResumeData(url, partial_data)
    /\ batch_data' = <<>>
    /\ consecutive_same_height' = 0
    /\ no_new_data_count' = 0
    /\ last_height' = 1
    /\ exc' = ""
    /\ pending' = ""
    /\ hist' = [hist EXCEPT !.attempts = 0,
                            !.appended = [n \in Names |-> 0],
                            !.resumed = ResumeData(url, partial_data),
                            !.navigated = FALSE,
                            !.fault_at = ""]
    /\ clock' = IF index > 1 THEN Sleep ELSE clock
    /\ UNCHANGED <<urls, callers, site, progress_file, merged_file, master_file, open_sessions,
                   index, completed_urls, partial_data, results, failed_urls, count>>

\* Lines 483-486: the count returned, then the checkpoint with the completed
\* URLs.
JobReturned ==
    /\ mpc = "returned"
    /\ results' = [u \in DOMAIN results \cup {url} |->
                      IF u = url THEN count ELSE results[u]]
    /\ completed_urls' = completed_urls \cup {url}
    /\ \E saved \in SaveOutcomes :
          /\ progress_file' = save_progress(saved, completed_urls', "", {})
          /\ hist' = [hist EXCEPT !.wrote_completed =
                         IF saved = "written" THEN @ \cup completed_urls' ELSE @,
                                  !.returned = @ \cup {index}]
    /\ index' = index + 1
    /\ mpc' = "loop"
    /\ UNCHANGED <<urls, callers, site, merged_file, master_file, clock, open_sessions, partial_data,
                   failed_urls, count, job_vars>>

\* The failure ends the loop.
AfterFailure_Stop(i, n) == n + 1

\* Lines 494-497 and 459: the failure is recorded and the loop goes on with
\* the next of the n URLs.
AfterFailure(i, n) == i + 1

\* Lines 494-497.
JobRaised ==
    /\ mpc = "raised"
    /\ failed_urls' = Append(failed_urls, url)
    /\ index' = AfterFailure(index, Len(urls))
    /\ mpc' = "loop"
    /\ hist' = [hist EXCEPT !.raised = @ \cup {index}]
    /\ UNCHANGED <<env_vars, completed_urls, partial_data, results, count, job_vars>>

\* Lines 499-516.
Finish ==
    /\ mpc = "loop" /\ index > Len(urls)
    /\ mpc' = "done"
    /\ UNCHANGED <<env_vars, index, completed_urls, partial_data, results, failed_urls,
                   count, job_vars, hist>>

Next ==
    \/ LoadProgress
    \/ SkipCompleted
    \/ StartJob
    \/ AttemptStart
    \/ LoadPage
    \/ LoadSkipped
    \/ ScrollInit
    \/ ScrollStep
    \/ FinalFlush
    \/ Verify
    \/ RecoveryWait
    \/ Finally
    \/ JobReturned
    \/ JobRaised
    \/ Finish

\* A run over a list of two URLs, against pages that list BATCH_SIZE names.
Init == Start(UrlLists, {"fresh", "completed"}, BATCH_SIZE)

Spec == Init /\ [][Next]_vars

\* A run over the list of the program, against a page that lists NumNames names.
InitJob == Start({<<GURGAON_URL>>}, PriorRuns, NumNames)

SpecJob == InitJob /\ [][Next]_vars

\* The page settles: from some point on a pass of the scroll loop finds the
\* page height it found before and no name it has not seen.
PageSettles ==
    <>[][pc = "scrolling" => (last_height' = last_height /\ seen_titles' = seen_titles)]_vars

\* The interpreter goes on running the program, every call into the browser,
\* the file system and time.sleep returns, and the page settles.
SpecJobFair == SpecJob /\ WF_vars(Next) /\ PageSettles

(***************************************************************************)
(* update_master_file called from several callers at once.  The function   *)
(* takes no lock and writes the file in place, so that its statements are  *)
(* interleaved freely with those of the other callers.  The program itself *)
(* stands still.                                                           *)
(***************************************************************************)
\* The batches a caller may pass: one to BATCH_SIZE names, none twice.
Batches ==
    {b \in UNION {[1..n -> Names] : n \in 1..BATCH_SIZE} :
        \A i, j \in DOMAIN b : i # j => b[i] # b[j]}

program_vars == <<urls, site, progress_file, merged_file, open_sessions, multi_vars,
                  job_vars, hist>>

\* Lines 112-118: the call, current_time and new_data.
update_master_file_enter(c) ==
    /\ callers[c].pc = "idle"
    /\ \E data \in Batches, city \in Cities :
          callers' = [callers EXCEPT ![c] =
                         [@ EXCEPT !.pc = "entered", !.data = data, !.city_name = city,
                                   !.current_time = Now]]
    /\ UNCHANGED <<master_file, clock, program_vars>>

\* Lines 120-122: os.path.exists and, for a file that is there, read_excel.
update_master_file_load(c) ==
    /\ callers[c].pc = "entered"
    /\ callers' = [callers EXCEPT ![c] =
                      [@ EXCEPT !.pc = "loaded", !.df_existing = master_file,
                                !.missed = {}]]
    /\ UNCHANGED <<master_file, clock, program_vars>>

\* Lines 123-137: df_combined from df_existing and new_data, to_excel over the
\* file, and the return.
update_master_file_write(c) ==
    /\ callers[c].pc = "loaded"
    /\ master_file' = MasterFileAfter(callers[c].df_existing, callers[c].data,
                                      callers[c].city_name, callers[c].current_time)
    /\ callers' = [d \in Callers |->
                      IF d = c THEN [callers[d] EXCEPT !.pc = "returned"]
                      ELSE IF callers[d].pc = "loaded"
                      THEN [callers[d] EXCEPT !.missed = @ \cup {c}]
                      ELSE callers[d]]
    /\ UNCHANGED <<clock, program_vars>>

\* Lines 139-141: read_excel or to_excel raised, the file is as it was; the
\* exception goes to the caller.
update_master_file_raise(c) ==
    /\ callers[c].pc \in {"entered", "loaded"}
    /\ callers' = [callers EXCEPT ![c] = [@ EXCEPT !.pc = "raised"]]
    /\ UNCHANGED <<master_file, clock, program_vars>>

\* A second passes.
TimePasses ==
    /\ clock < MaxTime
    /\ clock' = clock + 1
    /\ UNCHANGED <<master_file, callers, program_vars>>

NextCallers ==
    \/ \E c \in Callers : update_master_file_enter(c)
    \/ \E c \in Callers : update_master_file_load(c)
    \/ \E c \in Callers : update_master_file_write(c)
    \/ \E c \in Callers : update_master_file_raise(c)
    \/ TimePasses

\* The master file is missing or holds the rows of an earlier run.
InitCallers == Start({<<GURGAON_URL>>}, {"fresh", "rerun"}, NumNames)

SpecCallers == InitCallers /\ [][NextCallers]_vars

(***************************************************************************)
(* Properties.                                                             *)
(***************************************************************************)
\* The rows of a file whose key is k.
RowsOfKey(file, k) == {r \in BagToSet(file.rows) : NameCityKey(r) = k}

\* The file holds exactly one row for each key of `latest` that belongs to it,
\* with the time `latest` gives, and no other row.
HoldsLatest(file, latest, keys) ==
    /\ \A r \in BagToSet(file.rows) :
          /\ CopiesIn(r, file.rows) = 1
          /\ NameCityKey(r) \in keys
    /\ \A k \in keys :
          /\ Cardinality(RowsOfKey(file, k)) = 1
          /\ \A r \in RowsOfKey(file, k) : r.time = latest[k]

\* The names a file holds for a city.
StoredNames(file, city) == {r.name : r \in {q \in BagToSet(file.rows) : q.city = city}}

\* C1: after every merge the per-job file holds exactly one row per locality
\* name and the master file exactly one row per (locality name, city), and the
\* row of a key is the one with the greatest extraction time ever merged for it.
C1_OneRowPerKeyLatest ==
    /\ \A c \in Cities :
          merged_file[c].exists =>
              HoldsLatest(merged_file[c], hist.latest_merged,
                          {k \in DOMAIN hist.latest_merged : k[2] = c})
    /\ master_file.exists =>
          HoldsLatest(master_file, hist.latest_master, DOMAIN hist.latest_master)

\* A merge met a row of its own key in the master file and the later row is the
\* one the file holds.
C1_Witness ==
    \E k \in hist.remerged :
        /\ hist.latest_master[k] = MaxTime
        /\ \E r \in BagToSet(master_file.rows) : NameCityKey(r) = k /\ r.time = MaxTime
        /\ \E r \in BagToSet(merged_file[k[2]].rows) : r.name = k[1] /\ r.time = MaxTime

\* C2: in one call of scrape_locality a name is appended to the batch at most
\* once, and a name restored from resume_data is never appended.
C2_AppendedAtMostOnce ==
    \A n \in Names :
        /\ hist.appended[n] <= 1
        /\ n \in hist.resumed => hist.appended[n] = 0

\* A resumed call, in its second attempt, has read the whole page again and
\* appended the one name that was not restored.
C2_Witness ==
    /\ hist.resumed = PriorNames
    /\ hist.attempts = 2
    /\ \A n \in Names : hist.appended[n] = (IF n \in PriorNames THEN 0 ELSE 1)
    /\ seen_titles = Names

\* The names of the checkpoint's partial_data are in both files.
CheckpointIsStored ==
    LET partial == progress_file.content.partial_data
    IN  (progress_file.state = "ok" /\ partial.url # "") =>
            /\ partial.seen_titles \subseteq
                  StoredNames(merged_file[CityName(partial.url)], CityName(partial.url))
            /\ partial.seen_titles \subseteq StoredNames(master_file, CityName(partial.url))

\* A step in which the flush of a full batch raises.
FlushFails == pc = "scrolling" /\ hist'.fault_at = "flush"

\* C3: the names of the persisted checkpoint's seen_titles are in the durable
\* store at every point of the run, and a flush that fails propagates, leaves
\* the checkpoint as it was and keeps the batch.
C3_CheckpointBehindStore ==
    /\ []CheckpointIsStored
    /\ [][FlushFails => /\ exc' = "SinkError"
                        /\ pc' \in {"recovery_wait", "finally"}
                        /\ progress_file' = progress_file
                        /\ Len(batch_data') >= BATCH_SIZE
                        /\ Range(batch_data) \subseteq Range(batch_data')]_vars

\* After a flush that raised, the next attempt flushed the batch that was kept
\* and the checkpoint lists its names.
C3_Witness ==
    /\ exc = "SinkError"
    /\ hist.attempts = 2
    /\ pc = "scrolling"
    /\ batch_data = <<>>
    /\ progress_file.state = "ok"
    /\ progress_file.content.partial_data.seen_titles = 1..BATCH_SIZE

\* C4: a URL written to completed_urls of the persisted checkpoint is in
\* completed_urls of every checkpoint written later in the run.
C4_CompletedOnlyGrows ==
    progress_file.state = "ok" =>
        hist.wrote_completed \subseteq progress_file.content.completed_urls

\* C5: a URL in completed_urls of the loaded checkpoint is skipped: no session
\* is opened for it, nothing is extracted or flushed for it, and it is in
\* neither results nor failed_urls.
C5_CompletedSkipped ==
    \A u \in hist.loaded_completed :
        /\ u \notin hist.sessions_for
        /\ u \notin hist.extracted_for
        /\ u \notin hist.flushed_for
        /\ u \notin DOMAIN results
        /\ u \notin Range(failed_urls)

\* The run has ended; the completed URL of the list was skipped and the other
\* URL was scraped.
C5_Witness ==
    /\ mpc = "done"
    /\ urls = <<GURGAON_URL, MUMBAI_URL>>
    /\ hist.loaded_completed = {GURGAON_URL}
    /\ hist.skipped = {1}
    /\ MUMBAI_URL \in hist.extracted_for
    /\ MUMBAI_URL \in hist.flushed_for

\* A call returns, and its URL gets into results and completed_urls, only with
\* a seen set of at least the threshold, at exhaustion.
SuccessNeedsThreshold ==
    /\ (pc = "finally" /\ pending = "return") =>
          /\ Cardinality(seen_titles) >= min_expected
          /\ no_new_data_count >= NO_NEW_DATA_LIMIT
    /\ mpc = "returned" => count >= min_expected
    /\ \A u \in DOMAIN results : results[u] >= get_min_localities_threshold(CityName(u))
    /\ \A u \in completed_urls : u \in DOMAIN results \/ u \in hist.loaded_completed

\* The attempt has ended in an exception after its scroll loop was exhausted
\* with fewer names than the threshold.
ExhaustedShort ==
    /\ pc \in {"recovery_wait", "finally"}
    /\ pending # "return"
    /\ hist.fault_at \in {"exhausted", "verify"}
    /\ Cardinality(seen_titles) < min_expected

BatchIsStored ==
    /\ Range(batch_data) \subseteq StoredNames(merged_file[city_name], city_name)
    /\ Range(batch_data) \subseteq StoredNames(master_file, city_name)

\* C6 as stated: success only with at least the threshold at exhaustion, and
\* exhaustion with fewer names ends the attempt with the insufficient-records
\* failure, the remaining batch flushed.
C6_ShortEndsInsufficient ==
    /\ SuccessNeedsThreshold
    /\ ExhaustedShort => (exc = "Insufficient" /\ BatchIsStored)

\* C6, amended: exhaustion with fewer names ends the attempt with the
\* insufficient-records failure, the remaining batch flushed, or with the
\* exception of that flush.
C6_ShortEndsInFailure ==
    /\ SuccessNeedsThreshold
    /\ ExhaustedShort =>
          \/ exc = "Insufficient" /\ hist.fault_at = "verify" /\ BatchIsStored
          \/ exc = "SinkError" /\ hist.fault_at = "exhausted" /\ batch_data # <<>>

\* An attempt was exhausted with fewer names than the threshold, flushed the
\* batch it had and raised the insufficient-records failure.
C6_Witness ==
    /\ ExhaustedShort
    /\ exc = "Insufficient"
    /\ batch_data # <<>>
    /\ BatchIsStored

InAttempt == pc \in {"load", "scroll_init", "scrolling", "exhausted", "verify"}

\* C7: a call makes at most MAX_ERRORS attempts, each one asking for a new
\* session; it ends by the return of a successful attempt or by the raise
\* after the MAX_ERRORS-th failure, and starts no attempt after that failure.
C7_AtMostMaxErrorsAttempts ==
    /\ hist.attempts <= MAX_ERRORS
    /\ mpc # "fell_through"
    /\ pc = "attempt" => error_count < MAX_ERRORS /\ hist.attempts = error_count
    /\ InAttempt => driver = "open" /\ hist.attempts = error_count + 1
    /\ pc = "recovery_wait" => pending = "retry" /\ error_count < MAX_ERRORS
    /\ (pc = "finally" /\ pending = "raise") =>
          error_count = MAX_ERRORS /\ hist.attempts = MAX_ERRORS
    /\ (pc = "finally" /\ pending = "return") => hist.attempts = error_count + 1
    /\ (pc = "finally" /\ pending = "retry") => error_count < MAX_ERRORS

\* The call raises after its last attempt.
C7_Witness ==
    /\ pc = "finally"
    /\ pending = "raise"
    /\ hist.attempts = MAX_ERRORS
    /\ error_count = MAX_ERRORS

\* C8: no session is open during the recovery wait.
C8_ClosedBeforeWait ==
    pc = "recovery_wait" => (driver # "open" /\ open_sessions = 0)

\* C9: at most one session is open; the session of an attempt is closed when
\* the attempt ends, before the next attempt and before the call ends.
C9_SessionClosedAtAttemptEnd ==
    /\ open_sessions \in {0, 1}
    /\ open_sessions = 1 <=> driver = "open"
    /\ InAttempt => open_sessions = 1
    /\ pc = "attempt" => open_sessions = 0
    /\ mpc # "job" => open_sessions = 0

\* A call has returned after a failed attempt (the clock has passed a recovery
\* wait) and a successful one, and no session is open.
C9_Witness ==
    /\ mpc = "returned"
    /\ clock = MaxTime
    /\ open_sessions = 0
    /\ hist.sessions_for = {GURGAON_URL}

\* How the loop has settled list position i.
OutcomesOf(i) == {o \in {"skipped", "returned", "raised"} : i \in hist[o]}

SkippedUrls == {urls[i] : i \in hist.skipped}

\* A failure is recorded and the loop goes on: every position the loop has
\* passed was skipped as completed or its URL was scraped, and what the call
\* ended with is recorded in results or in failed_urls.
FailureRecordedLoopGoesOn ==
    /\ \A i \in 1..Len(urls) : i < index =>
          /\ Cardinality(OutcomesOf(i)) = 1
          /\ i \in hist.skipped => urls[i] \in completed_urls
          /\ i \notin hist.skipped => urls[i] \in hist.sessions_for
          /\ i \in hist.returned => urls[i] \in DOMAIN results
          /\ i \in hist.raised => urls[i] \in Range(failed_urls)
    /\ mpc = "done" => index = Len(urls) + 1

\* Each URL of the list is in exactly one of results, failed_urls and the
\* URLs skipped as completed.
UrlsInOneOutcome ==
    \A u \in Range(urls) :
        Cardinality({o \in {"results", "failed_urls", "skipped"} :
                        \/ o = "results" /\ u \in DOMAIN results
                        \/ o = "failed_urls" /\ u \in Range(failed_urls)
                        \/ o = "skipped" /\ u \in SkippedUrls}) = 1

NoUrlTwice == \A i, j \in 1..Len(urls) : urls[i] = urls[j] => i = j

\* C10 as stated: a permanent failure is recorded in failed_urls, the later
\* URLs are still processed, and at the end every URL of the list is in exactly
\* one of results, failed_urls and the skipped-as-completed set.
C10_EveryUrlInOneOutcome ==
    /\ FailureRecordedLoopGoesOn
    /\ mpc = "done" => UrlsInOneOutcome

\* C10, amended: at the end every position of the list is settled in exactly
\* one way, and every URL is in exactly one of the three when no URL is in the
\* list twice.
C10_EveryPositionInOneOutcome ==
    /\ FailureRecordedLoopGoesOn
    /\ (mpc = "done" /\ NoUrlTwice) => UrlsInOneOutcome

\* The first job has failed for good and the second URL, another one, was
\* scraped after it.
C10_Witness ==
    /\ mpc = "done"
    /\ urls = <<GURGAON_URL, MUMBAI_URL>>
    /\ hist.raised = {1, 2}
    /\ failed_urls = urls
    /\ hist.extracted_for = {GURGAON_URL, MUMBAI_URL}

\* C11: load_progress never raises; for a checkpoint file that is missing,
\* unreadable or corrupt it returns the empty checkpoint, and for any other
\* file the checkpoint the file holds.
C11_LoadNeverRaises ==
    /\ \A state \in {"missing", "unreadable", "corrupt"}, progress \in {EmptyProgress, progress_file.content} :
          load_progress([state |-> state, content |-> progress]) = EmptyProgress
    /\ mpc # "start" =>
          /\ hist.loaded_completed \subseteq completed_urls
          /\ hist.loaded_from.state = "ok" =>
                /\ hist.loaded_completed = hist.loaded_from.content.completed_urls
                /\ partial_data = hist.loaded_from.content.partial_data
          /\ hist.loaded_from.state # "ok" =>
                /\ hist.loaded_completed = {}
                /\ partial_data = NoPartial

\* A run that found a truncated checkpoint has started its job with nothing
\* completed and nothing to resume.
C11_Witness ==
    /\ mpc = "job"
    /\ hist.loaded_from = CorruptProgressFile
    /\ completed_urls = {}
    /\ hist.resumed = {}

\* C12: a save of the checkpoint is atomic: every step that changes the
\* checkpoint file leaves a complete checkpoint in it, the one being saved;
\* the file never becomes empty or partial.
C12_SaveIsAtomic ==
    [][progress_file' # progress_file => progress_file'.state = "ok"]_vars

\* The rows a file holds for the names of data in a city.
RowsOfBatch(file, data, city) ==
    {r \in BagToSet(file.rows) : r.city = city /\ r.name \in Range(data)}

\* The file holds what a merge of data has left in it: one row for each name
\* of data, all of one extraction time.
AlreadyMerged(file, data, city) ==
    /\ data # <<>>
    /\ \A n \in Range(data) :
          Cardinality({r \in RowsOfBatch(file, data, city) : r.name = n}) = 1
    /\ \A r, q \in RowsOfBatch(file, data, city) : r.time = q.time

\* The step is a call of save_and_merge_data that wrote the city's file,
\* which held the batch already; the same for the master file.
RemergeIntoMerged ==
    /\ mpc = "job"
    /\ hist'.flushed.tick # hist.flushed.tick
    /\ hist'.flushed.into \in {"merged", "both"}
    /\ AlreadyMerged(merged_file[city_name], hist'.flushed.data, city_name)

RemergeIntoMaster ==
    /\ mpc = "job"
    /\ hist'.flushed.tick # hist.flushed.tick
    /\ hist'.flushed.into = "both"
    /\ AlreadyMerged(master_file, hist'.flushed.data, city_name)

\* After the second merge the file holds the rows it held for the other keys,
\* and one row for each name of the batch, with the time of the second merge.
SameKeysNewTime(before, after, data, city, t) ==
    /\ BagToSet(after.rows) \ RowsOfBatch(after, data, city)
          = BagToSet(before.rows) \ RowsOfBatch(before, data, city)
    /\ \A r \in BagToSet(after.rows) : CopiesIn(r, after.rows) = CopiesIn(r, before.rows)
                                        \/ r \in RowsOfBatch(after, data, city)
    /\ RowsOfBatch(after, data, city) = {Row(n, city, t) : n \in Range(data)}
    /\ \A r \in RowsOfBatch(after, data, city) : CopiesIn(r, after.rows) = 1

\* C13 as stated: merging a batch into a store that already contains it
\* produces no change.
C13_RemergeChangesNothing ==
    [][/\ RemergeIntoMerged => merged_file' = merged_file
       /\ RemergeIntoMaster => master_file' = master_file]_vars

\* C13, amended: merging a batch into a store that already contains it leaves
\* the keys and the rows of the other keys as they were, and gives the rows of
\* the batch the extraction time of the second merge.
C13_RemergeKeepsKeys ==
    [][/\ RemergeIntoMerged =>
             SameKeysNewTime(merged_file[city_name], merged_file'[city_name],
                             hist'.flushed.data, city_name, clock)
       /\ RemergeIntoMaster =>
             SameKeysNewTime(master_file, master_file', hist'.flushed.data, city_name, clock)]_vars

\* The batch an earlier run had merged at time 0 was merged again: both files
\* hold its rows once, with a later time.
C13_Witness ==
    /\ mpc = "job"
    /\ hist.flushed.into = "both"
    /\ hist.flushed.data = <<1, 2>>
    /\ {<<n, "Gurgaon">> : n \in PriorNames} \subseteq hist.remerged
    /\ RowsOfBatch(master_file, hist.flushed.data, "Gurgaon")
          = {Row(n, "Gurgaon", clock) : n \in PriorNames}
    /\ RowsOfBatch(merged_file["Gurgaon"], hist.flushed.data, "Gurgaon")
          = {Row(n, "Gurgaon", clock) : n \in PriorNames}
    /\ Cardinality(BagToSet(master_file.rows)) = BATCH_SIZE

\* C14: every call of scrape_locality ends, by its return or by the raise
\* after its last attempt, when the page settles in every attempt.
C14_CallEnds ==
    /\ (mpc = "job") ~> (mpc \in {"returned", "raised"})
    /\ [](mpc # "fell_through")

\* The call is ending with the raise of its last attempt, which got through
\* the load loop and left the scroll loop by its test.
C14_Witness ==
    /\ pc = "finally" /\ pending = "raise"
    /\ hist.attempts = MAX_ERRORS
    /\ hist.navigated
    /\ no_new_data_count = NO_NEW_DATA_LIMIT
    /\ exc = "Insufficient"

\* C15: in every attempt the scroll loop counts a pass as one without new
\* data only when, in that attempt, the height was found unchanged by at least
\* 3 consecutive passes up to this one, and it leaves the loop only with that
\* count at 5.
C15_ExitOnlyAfterStability ==
    pc \in {"scrolling", "exhausted", "verify"} =>
        /\ no_new_data_count > 0 => hist.unchanged_run >= SAME_HEIGHT_LIMIT
        /\ pc # "scrolling" => no_new_data_count >= NO_NEW_DATA_LIMIT

\* C16: in every attempt the scroll loop is entered, and cards are looked
\* for, only after the session of that attempt has loaded the job URL and the
\* cards were found in it.
C16_ScrollOnlyAfterLoad ==
    pc \in {"scrolling", "exhausted", "verify"} => (hist.navigated /\ location = "url")

\* The first attempt of the call, in which every pass of the scroll loop so
\* far has found the height unchanged and no new name.
FirstAttemptStalled ==
    /\ mpc = "job"
    /\ hist.attempts = 1
    /\ hist.stalled_steps >= 0

\* C17: in the first attempt, against a session that gives no new name and a
\* constant height from the first pass on, the scroll loop is left after
\* exactly 7 passes, and the attempt then raises the insufficient-localities
\* exception when the seen set is smaller than the threshold.
C17_SevenStepsThenInsufficient ==
    FirstAttemptStalled =>
        /\ pc = "scrolling" => hist.stalled_steps < 7
        /\ pc \in {"exhausted", "verify"} => (hist.stalled_steps = 7 /\ batch_data = <<>>)
        /\ (pc \in {"recovery_wait", "finally"} /\ hist.stalled_steps = 7) =>
              IF Cardinality(seen_titles) < min_expected
              THEN exc = "Insufficient" /\ hist.fault_at = "verify" /\ pending # "return"
              ELSE pending = "return"

\* The first attempt has raised the insufficient-localities exception after 7
\* passes that found nothing new.
C17_Witness ==
    /\ FirstAttemptStalled
    /\ pc = "recovery_wait"
    /\ hist.stalled_steps = 7
    /\ seen_titles = {}
    /\ exc = "Insufficient"

\* The step is a pass of the scroll loop that brings no_new_data_count to 3:
\* the pass refreshes the page.
RefreshStep ==
    /\ mpc = "job" /\ pc = "scrolling"
    /\ no_new_data_count = REFRESH_AT - 1
    /\ no_new_data_count' = REFRESH_AT

\* C18: the page is refreshed only while the seen set is smaller than the
\* job's threshold; a job whose seen set meets the threshold is not refreshed.
C18_RefreshOnlyWhenShort ==
    [][RefreshStep => Cardinality(seen_titles') < min_expected]_vars

\* C19: when scrape_locality ends, by its return or by the raise after its
\* last attempt, every name of its seen set is in the city's file and in the
\* master file.
C19_SeenIsStoredAtEnd ==
    (mpc = "job" /\ pc = "finally" /\ pending \in {"return", "raise"}) =>
        /\ seen_titles \subseteq StoredNames(merged_file[city_name], city_name)
        /\ seen_titles \subseteq StoredNames(master_file, city_name)

\* The step raises the insufficient-localities exception.
RaisesInsufficient == pc = "verify" /\ hist'.fault_at = "verify"

\* The step goes from the end of a failed attempt to the next attempt.
Restarts == mpc = "job" /\ pc = "finally" /\ pc' = "attempt"

\* The call is ending with a seen set smaller than the threshold.
EndsShort ==
    /\ mpc = "job" /\ pc = "finally" /\ pending \in {"return", "raise"}
    /\ Cardinality(seen_titles) < min_expected

\* C20: the insufficient-localities exception is handled by the attempt loop
\* of the same call: it counts as one of the MAX_ERRORS errors and the next
\* attempt starts with a new session and the seen set as it was; a call that
\* never gets enough names makes exactly MAX_ERRORS attempts and then raises.
C20_InsufficientConsumesAttempt ==
    /\ [](EndsShort => (pending = "raise" /\ hist.attempts = MAX_ERRORS
                          /\ error_count = MAX_ERRORS))
    /\ [][RaisesInsufficient =>
             /\ exc' = "Insufficient"
             /\ error_count' = error_count + 1
             /\ seen_titles' = seen_titles
             /\ pc' = IF error_count' < MAX_ERRORS THEN "recovery_wait" ELSE "finally"
             /\ pending' = IF error_count' < MAX_ERRORS THEN "retry" ELSE "raise"]_vars
    /\ [][Restarts =>
             /\ seen_titles' = seen_titles
             /\ retry_count' = retry_count
             /\ driver' # "open" /\ open_sessions' = 0]_vars

\* The call is ending with the raise after MAX_ERRORS attempts, the last of
\* which ran to exhaustion and raised the insufficient-localities exception.
C20_Witness ==
    /\ EndsShort
    /\ exc = "Insufficient"
    /\ hist.fault_at = "verify"
    /\ hist.attempts = MAX_ERRORS
    /\ clock = MaxTime

(***************************************************************************)
(* C21.  The checkpoint write that fails.                                  *)
(***************************************************************************)
\* The pass of the scroll loop that flushed a full batch into both stores
\* (lines 382-384) and whose save_progress (line 385) did not leave the new
\* checkpoint behind: open() or json.dump raised inside it.
CheckpointWriteFails ==
    /\ mpc = "job" /\ pc = "scrolling"
    /\ hist'.flushed.tick # hist.flushed.tick
    /\ hist'.flushed.into = "both"
    /\ progress_file' # ProgressFile(ProgressOf({}, url, seen_titles'))

\* The pass went on to the loop test: nothing was raised in it.
PassCompletes ==
    /\ pc' \in {"scrolling", "exhausted"}
    /\ error_count' = error_count
    /\ exc' = exc
    /\ pending' = pending

\* The stores are what the merge of the batch has made of them.
StoresAsMerged ==
    /\ merged_file' = [merged_file EXCEPT ![city_name] =
                          MergedFileAfter(@, hist'.flushed.data, city_name, clock)]
    /\ master_file' = MasterFileAfter(master_file, hist'.flushed.data, city_name, clock)

\* The scroll step (lines 389-405) with the names the pass has seen: the
\* counters are those the page height gives, from their values before it.
CountersAsScrolled ==
    /\ last_height' \in HeightsOf(location, last_height)
    /\ consecutive_same_height' =
          IF last_height' = last_height
          THEN SameHeightAfter(consecutive_same_height) ELSE 0
    /\ no_new_data_count' =
          IF last_height' = last_height
          THEN NoNewDataAfter(no_new_data_count, consecutive_same_height',
                              Cardinality(seen_titles'), Cardinality(seen_titles))
          ELSE 0

\* C21: a failure while writing the checkpoint is not fatal.  In a pass whose
\* checkpoint write failed, nothing is raised by save_progress; the seen set
\* keeps the names of the pass, the batch stays emptied by the flush, the
\* stores are those the merge left; and the pass either goes on to the loop
\* test with the counters the scroll step gives and no error counted, or is
\* ended by an exception of the scroll step or of the refresh after it.
C21_SaveFailureNotFatal ==
    [][CheckpointWriteFails =>
          /\ hist'.fault_at # "save"
          /\ exc' # "SaveError"
          /\ seen_titles \subseteq seen_titles'
          /\ Range(hist'.flushed.data) \subseteq seen_titles'
          /\ batch_data' = <<>>
          /\ StoresAsMerged
          /\ \/ PassCompletes /\ CountersAsScrolled
             \/ /\ hist'.fault_at \in {"scroll", "refresh"}
                /\ error_count' = ErrorsAfter(error_count)
                /\ exc' \in {"WebDriverException", "TimeoutException"}]_vars

\* A first run whose checkpoint write was cut short after the first flush:
\* the file is unreadable, the batch is in both stores, the loop goes on
\* with the seen set and no error counted.
C21_Witness ==
    /\ mpc = "job" /\ pc = "scrolling"
    /\ hist.loaded_from = MissingProgressFile
    /\ progress_file = CorruptProgressFile
    /\ hist.flushed.into = "both"
    /\ Range(hist.flushed.data) \subseteq seen_titles
    /\ Range(hist.flushed.data) \subseteq StoredNames(master_file, city_name)
    /\ batch_data = <<>>
    /\ error_count = 0
    /\ hist.attempts = 1

(***************************************************************************)
(* C22.  update_master_file from concurrent callers.                       *)
(***************************************************************************)
\* The call of c returned and the file lacks a name of its batch.
LostUpdate(c) ==
    /\ callers[c].pc = "returned"
    /\ ~(Range(callers[c].data) \subseteq StoredNames(master_file, callers[c].city_name))

\* d wrote the file back from what it had read before c wrote it.
WroteOver(d, c) ==
    /\ d # c
    /\ callers[d].pc = "returned"
    /\ c \in callers[d].missed

\* C22: the merge is a read-modify-write that the interleaving of two callers
\* breaks, and nothing else does: the names of a call that returned are
\* missing from the master file only when another caller has written the
\* file back from a copy it had read before that call wrote it.
C22_LostOnlyByInterleaving ==
    \A c \in Callers : LostUpdate(c) => \E d \in Callers : WroteOver(d, c)

\* The lost update: both calls returned, none raised, the second write-back
\* came from a copy read before the first, and the file lacks a name of the
\* first call.
C22_Witness ==
    \E c, d \in Callers :
        /\ LostUpdate(c)
        /\ WroteOver(d, c)
        /\ callers[d].missed = {c}
        /\ callers[c].missed = {}
        /\ ~LostUpdate(d)
        /\ \A e \in Callers : callers[e].pc = "returned"
====
